---- MODULE Spec2Model ----
(***************************************************************************)
(* Hierarchic (order 2, vertex + edge-bubble) shape functions and the      *)
(* nodal projection of one field onto another, after                       *)
(* src/apf/apfHierarchic.cc.                                               *)
(*                                                                         *)
(* Real numbers.  Every quantity the code computes is of the form          *)
(* (p + q*c)/Den with integers p, q, where c is the bubble constant of     *)
(* line 17 and Den = 4*GridRes^2: reference coordinates are the grid       *)
(* points X/GridRes and nodal values are small integers.  Such a number is *)
(* the record [p |-> p, q |-> q].  c is kept symbolic: it is not a         *)
(* rational with a small denominator, so two such numbers are equal as     *)
(* reals exactly when their records are equal.  The arithmetic is exact    *)
(* (the rounding of IEEE doubles is not modelled).                         *)
(***************************************************************************)
EXTENDS Integers, Sequences, FiniteSets, TLC

\* ------------------------------------------------------------------ bounds
\* reference coordinates are the multiples of 1/GridRes
GridRes == 3
\* nodal values of the input fields are drawn from 0..MaxVal
MaxVal == 1
\* getHierarchic is called with the orders -MaxOrder..MaxOrder
MaxOrder == 3

\* ------------------------------------------------------------- arithmetic
Den == 4 * GridRes * GridRes

\* an arithmetic step the representation cannot carry out exactly has no value
Inexact == CHOOSE x \in {} : TRUE

ExactDiv(a, d) == IF a % d = 0 THEN a \div d ELSE Inexact

\* the real number k
R(k) == [p |-> k * Den, q |-> 0]

\* the real number X/GridRes
Grid(X) == [p |-> 4 * GridRes * X, q |-> 0]

Add(x, y) == [p |-> x.p + y.p, q |-> x.q + y.q]

Sub(x, y) == [p |-> x.p - y.p, q |-> x.q - y.q]

Neg(x) == [p |-> 0 - x.p, q |-> 0 - x.q]

Mul(x, y) ==
  IF x.q # 0 /\ y.q # 0 THEN Inexact
  ELSE [p |-> ExactDiv(x.p * y.p, Den),
        q |-> ExactDiv(x.p * y.q + x.q * y.p, Den)]

\* x / 2.0
Div2(x) == [p |-> ExactDiv(x.p, 2), q |-> ExactDiv(x.q, 2)]

\* the literal 0.5
Half == Div2(R(1))

\* static const double c = -2.44948974278318, kept symbolic
c == [p |-> 0, q |-> Den]

Vector3(x, y, z) == <<x, y, z>>

\* Vector3 * double
Scale(v, s) == <<Mul(v[1], s), Mul(v[2], s), Mul(v[3], s)>>

\* ------------------------------------------------------------ Mesh types
VERTEX == 0
EDGE == 1
TRIANGLE == 2
QUAD == 3
TET == 4
HEX == 5
PRISM == 6
PYRAMID == 7
TYPES == 8

NULL == "NULL"

\* --------------------------------------------- Hierarchic entity shapes
\* A NewArray is a sequence; <<>> is the array before allocate().
\* xi is a Vector3; the code's xi[0], xi[1], xi[2] are xi[1], xi[2], xi[3].

VertexGetValues(xi) == <<R(1)>>

\* the body is empty: dN is left as the caller passed it
VertexGetLocalGradients(xi, dN) == dN

EdgeGetValues(xi) ==
  LET N0 == Div2(Sub(R(1), xi[1]))
      N1 == Div2(Add(R(1), xi[1]))
  IN  <<N0, N1, Mul(Mul(c, N0), N1)>>

EdgeGetLocalGradients(xi, dN) ==
  << Vector3(Neg(Half), R(0), R(0)),
     Vector3(Half, R(0), R(0)),
     Vector3(Mul(Mul(Neg(Half), c), xi[1]), R(0), R(0)) >>

TriangleGetValues(xi) ==
  LET N0 == Sub(Sub(R(1), xi[1]), xi[2])
      N1 == xi[1]
      N2 == xi[2]
  IN  <<N0, N1, N2,
        Mul(Mul(c, N0), N1),
        Mul(Mul(c, N1), N2),
        Mul(Mul(c, N2), N0)>>

TriangleGetLocalGradients(xi, dN) ==
  << Vector3(R(-1), R(-1), R(0)),
     Vector3(R(1), R(0), R(0)),
     Vector3(R(0), R(1), R(0)),
     Scale(Vector3(Sub(Sub(R(1), Mul(R(2), xi[1])), xi[2]), Neg(xi[1]), R(0)), c),
     Scale(Vector3(xi[2], xi[1], R(0)), c),
     Scale(Vector3(Neg(xi[2]), Sub(Sub(R(1), xi[1]), Mul(R(2), xi[2])), R(0)), c) >>

TetrahedronGetValues(xi) ==
  LET N0 == Sub(Sub(Sub(R(1), xi[1]), xi[2]), xi[3])
      N1 == xi[1]
      N2 == xi[2]
      N3 == xi[3]
  IN  <<N0, N1, N2, N3,
        Mul(Mul(c, N0), N1),
        Mul(Mul(c, N1), N2),
        Mul(Mul(c, N2), N0),
        Mul(Mul(c, N0), N3),
        Mul(Mul(c, N1), N3),
        Mul(Mul(c, N2), N3)>>

\* mutant: the last coordinate's own term of dN[7] loses its factor 2.0
TetrahedronGetLocalGradients_Slip(xi, dN) ==
  << Vector3(R(-1), R(-1), R(-1)),
     Vector3(R(1), R(0), R(0)),
     Vector3(R(0), R(1), R(0)),
     Vector3(R(0), R(0), R(1)),
     Scale(Vector3(Sub(Sub(Sub(R(1), Mul(R(2), xi[1])), xi[2]), xi[3]),
                   Neg(xi[1]), Neg(xi[1])), c),
     Scale(Vector3(xi[2], xi[1], R(0)), c),
     Scale(Vector3(Neg(xi[2]),
                   Sub(Sub(Sub(R(1), xi[1]), Mul(R(2), xi[2])), xi[3]),
                   Neg(xi[2])), c),
     Scale(Vector3(Neg(xi[3]), Neg(xi[3]),
                   Sub(Sub(Sub(R(1), xi[1]), xi[2]), xi[3])), c),
     Scale(Vector3(xi[3], R(0), xi[1]), c),
     Scale(Vector3(R(0), xi[3], xi[2]), c) >>

TetrahedronGetLocalGradients(xi, dN) ==
  << Vector3(R(-1), R(-1), R(-1)),
     Vector3(R(1), R(0), R(0)),
     Vector3(R(0), R(1), R(0)),
     Vector3(R(0), R(0), R(1)),
     Scale(Vector3(Sub(Sub(Sub(R(1), Mul(R(2), xi[1])), xi[2]), xi[3]),
                   Neg(xi[1]), Neg(xi[1])), c),
     Scale(Vector3(xi[2], xi[1], R(0)), c),
     Scale(Vector3(Neg(xi[2]),
                   Sub(Sub(Sub(R(1), xi[1]), Mul(R(2), xi[2])), xi[3]),
                   Neg(xi[2])), c),
     Scale(Vector3(Neg(xi[3]), Neg(xi[3]),
                   Sub(Sub(Sub(R(1), xi[1]), xi[2]), Mul(R(2), xi[3]))), c),
     Scale(Vector3(xi[3], R(0), xi[1]), c),
     Scale(Vector3(R(0), xi[3], xi[2]), c) >>

\* EntityShape::getValues, dispatched on the static shape object
getValues(shape, xi) ==
  CASE shape = "vertex"   -> VertexGetValues(xi)
    [] shape = "edge"     -> EdgeGetValues(xi)
    [] shape = "triangle" -> TriangleGetValues(xi)
    [] shape = "tet"      -> TetrahedronGetValues(xi)

\* EntityShape::getLocalGradients, dispatched on the static shape object
getLocalGradients(shape, xi, dN) ==
  CASE shape = "vertex"   -> VertexGetLocalGradients(xi, dN)
    [] shape = "edge"     -> EdgeGetLocalGradients(xi, dN)
    [] shape = "triangle" -> TriangleGetLocalGradients(xi, dN)
    [] shape = "tet"      -> TetrahedronGetLocalGradients(xi, dN)

\* EntityShape::countNodes
countNodes(shape) ==
  CASE shape = "vertex"   -> 1
    [] shape = "edge"     -> 3
    [] shape = "triangle" -> 6
    [] shape = "tet"      -> 10

\* the static table of Hierarchic::getEntityShape
shapes == <<"vertex", "edge", "triangle", NULL, "tet", NULL, NULL, NULL>>

getEntityShape(type) == shapes[type + 1]

getNodeXi(type, n) == Vector3(R(0), R(0), R(0))

hasNodesIn(dimension) ==
  IF (dimension = 0) \/ (dimension = 1) THEN TRUE ELSE FALSE

\* mutant: the edge's own node is forgotten
countNodesOn_VertexOnly(type) ==
  IF type = VERTEX THEN 1 ELSE 0

countNodesOn(type) ==
  IF (type = VERTEX) \/ (type = EDGE) THEN 1 ELSE 0

getOrder == 2


\* the external Lagrange family provider (apfShape): order 1 is the linear family
getLagrange(o) == IF o = 1 THEN "Linear" ELSE NULL

\* the function-local static Hierarchic q
q == "Hierarchic"

\* mutant: every order from 2 up yields the hierarchic family
getHierarchic_AtLeast2(o) ==
  IF o = 1 THEN getLagrange(o)
  ELSE IF o >= 2 THEN q
  ELSE NULL

getHierarchic(o) ==
  IF o = 1 THEN getLagrange(o)
  ELSE IF o = 2 THEN q
  ELSE NULL

\* FieldShape::getOrder through a family pointer
FieldShapeGetOrder(family) ==
  CASE family = q        -> getOrder
    [] family = "Linear" -> 1

\* ------------------------------------------------------ reference domains
\* grid points <<X, Y, Z>> (xi = X/GridRes, ...) of each reference domain
RefGrid(type) ==
  CASE type = VERTEX   -> {<<0, 0, 0>>}
    [] type = EDGE     -> {<<X, 0, 0>> : X \in (0 - GridRes)..GridRes}
    [] type = TRIANGLE -> {<<X, Y, 0>> : X \in 0..GridRes, Y \in 0..GridRes} \cap
                          {g \in (0..GridRes) \X (0..GridRes) \X {0} :
                             g[1] + g[2] <= GridRes}
    [] type = TET      -> {g \in (0..GridRes) \X (0..GridRes) \X (0..GridRes) :
                             g[1] + g[2] + g[3] <= GridRes}

XiOf(g) == Vector3(Grid(g[1]), Grid(g[2]), Grid(g[3]))

SupportedTypes == {t \in 0..(TYPES - 1) : getEntityShape(t) # NULL}

Orders == (0 - MaxOrder)..MaxOrder

\* ------------------------------------------------------------------ mesh
\* The mesh the projection runs on: two edges sharing the vertex v1.
MeshVertices == {"v0", "v1", "v2"}

MeshEdges == {"e01", "e12"}

Entities == MeshVertices \cup MeshEdges

\* Mesh::getType
getType(e) == IF e \in MeshVertices THEN VERTEX ELSE EDGE

\* Mesh::getDownward: the vertices of an edge, in order
getDownward(e) ==
  CASE e = "e01" -> <<"v0", "v1">>
    [] e = "e12" -> <<"v1", "v2">>

\* Mesh::iterate, dimension by dimension
IterationOrder == <<"v0", "v1", "v2", "e01", "e12">>

\* ---------------------------------------------------------------- fields
\* A field is [shape, type, data]: data[e] is the sequence of the values of
\* the nodes of e (node n of the code is data[e][n + 1]), each value a
\* sequence of countComponents numbers.
ValueTypes == {"SCALAR", "VECTOR", "MATRIX", "PACKED"}

\* FieldBase::countComponents
countComponents(f) ==
  CASE f.type = "SCALAR" -> 1
    [] f.type = "VECTOR" -> 3
    [] f.type = "MATRIX" -> 9
    [] f.type = "PACKED" -> 2

\* FieldShape::countNodesOn of a family
ShapeCountNodesOn(family, type) ==
  CASE family = q        -> countNodesOn(type)
    [] family = "Linear" -> IF type = VERTEX THEN 1 ELSE 0

\* FieldBase::countNodesOn(MeshEntity*)
FieldCountNodesOn(f, e) == ShapeCountNodesOn(f.shape, getType(e))

\* the entity shapes of the linear family
LinearGetValues(type, xi) ==
  CASE type = VERTEX -> <<R(1)>>
    [] type = EDGE   -> <<Div2(Sub(R(1), xi[1])), Div2(Add(R(1), xi[1]))>>

\* the value basis of a family on an entity type
ShapeGetValues(family, type, xi) ==
  CASE family = q        -> getValues(getEntityShape(type), xi)
    [] family = "Linear" -> LinearGetValues(type, xi)

\* the nodal value with base k: component i is k*i
NodalValue(k, ncomp) == [i \in 1..ncomp |-> R(k * i)]

\* every field of a family and value type over the mesh with bases in 0..MaxVal
FieldsOf(family, type) ==
  LET withNodes == {e \in Entities : ShapeCountNodesOn(family, getType(e)) > 0}
      n == countComponents([type |-> type])
  IN  {[shape |-> family, type |-> type,
        data |-> [e \in Entities |->
                    IF e \in withNodes THEN <<NodalValue(k[e], n)>> ELSE <<>>]] :
         k \in [withNodes -> 0..MaxVal]}

\* the fields of FieldsOf whose nodes all hold the base k
UniformField(family, type, k) ==
  CHOOSE f \in FieldsOf(family, type) :
    \A e \in Entities : \A i \in 1..Len(f.data[e]) :
      f.data[e][i] = NodalValue(k, countComponents(f))

\* ------------------------------------------------------------- elements
\* Element::getNodeData: the nodal values of f in the closure of e, the
\* vertices first and then the entity's own node
getNodeData(f, e) ==
  IF getType(e) = VERTEX THEN f.data[e]
  ELSE f.data[getDownward(e)[1]] \o f.data[getDownward(e)[2]] \o f.data[e]

RECURSIVE SumNodes(_, _, _, _)
\* sum over the nodes j <= k of N[j] * nodes[j][i]
SumNodes(N, nodes, i, k) ==
  IF k = 0 THEN R(0)
  ELSE Add(SumNodes(N, nodes, i, k - 1), Mul(N[k], nodes[k][i]))

\* ElementOf<T>::getValue: the field f interpolated on e at xi
getValue(f, e, xi) ==
  LET N == ShapeGetValues(f.shape, getType(e), xi)
      nodes == getNodeData(f, e)
  IN  [i \in 1..countComponents(f) |-> SumNodes(N, nodes, i, Len(nodes))]

\* setComponents / FieldOf<T>::setNodeValue: store one nodal value
setComponents(f, e, n, value) == [f EXCEPT !.data[e][n + 1] = value]

setNodeValue(f, e, n, value) == [f EXCEPT !.data[e][n + 1] = value]

\* ------------------------------------------------------------ allocation
\* mem is [live, created, released, badFree]: live holds the elements not yet
\* destroyed, each [id, class, entity]; badFree counts destroys of a pointer
\* that is not live.
create(m, class, e) ==
  [m EXCEPT !.live = @ \cup {[id |-> m.created + 1, class |-> class, entity |-> e]},
            !.created = @ + 1]

destroy(m, ptr) ==
  IF \E r \in m.live : r.id = ptr
  THEN [m EXCEPT !.live = {r \in @ : r.id # ptr}, !.released = @ + 1]
  ELSE [m EXCEPT !.badFree = @ + 1]

\* Element::getEntity through a pointer
getEntity(m, ptr) == (CHOOSE r \in m.live : r.id = ptr).entity

\* ------------------------------------------------------------- Projector
\* Projector<T>::inEntity: the memory and the two pointers after the call
inEntity(m, e) ==
  LET m1 == create(m, "VectorElement", e)
      m2 == create(m1, "ElementOf", getEntity(m1, m1.created))
  IN  [mem |-> m2, meshElem |-> m1.created, fromElem |-> m2.created]

\* mutant: the zero-fill test is lost, every node is sampled
atNode_AlwaysSample(toF, fromF, meshEnt, fromEnt, dat, n) ==
  LET xi == getNodeXi(getType(fromEnt), n)
      value == getValue(fromF, fromEnt, xi)
  IN  setNodeValue(toF, fromEnt, n, value)

\* mutant: the sampled value of an edge is stored on the edge's first vertex
atNode_WrongEntity(toF, fromF, meshEnt, fromEnt, dat, n) ==
  LET nt == FieldCountNodesOn(toF, meshEnt)
      nf == FieldCountNodesOn(fromF, meshEnt)
  IN  IF (nf = 0) \/ ((nf - nt) < 0)
      THEN setComponents(toF, meshEnt, n, dat)
      ELSE LET xi == getNodeXi(getType(fromEnt), n)
               value == getValue(fromF, fromEnt, xi)
               target == IF getType(fromEnt) = EDGE
                         THEN getDownward(fromEnt)[1] ELSE fromEnt
           IN  setNodeValue(toF, target, n, value)

\* Projector<T>::atNode: the destination field after the call
atNode(toF, fromF, meshEnt, fromEnt, dat, n) ==
  LET nt == FieldCountNodesOn(toF, meshEnt)
      nf == FieldCountNodesOn(fromF, meshEnt)
  IN  IF (nf = 0) \/ ((nf - nt) < 0)
      THEN setComponents(toF, meshEnt, n, dat)
      ELSE LET xi == getNodeXi(getType(fromEnt), n)
               value == getValue(fromF, fromEnt, xi)
           IN  setNodeValue(toF, fromEnt, n, value)

\* mutant: the source element is not destroyed
outEntity_Leak(m, mElem, fElem) == destroy(m, mElem)

\* Projector<T>::outEntity: the memory after the call
outEntity(m, mElem, fElem) == destroy(destroy(m, mElem), fElem)

\* ------------------------------------------------------------------ state
VARIABLES
  to,         \* the destination field
  from,       \* the source field
  to0,        \* the destination field as it was before the call
  pc,         \* "idle" | "call" | "apply" | "atNode" | "returned" | "aborted"
  error,      \* "none" | "assert" | "fail"
  projector,  \* the instantiation run: "none" | "double" | "Vector3" | "Matrix3x3"
  meshElem,   \* Projector::meshElem (0 is the null pointer)
  fromElem,   \* Projector::fromElem
  data,       \* Projector::data
  mem,        \* the elements allocated
  visited,    \* the entities the traversal has left
  node,       \* the next node index of the entity being processed
  call,       \* the last call on the shape interface: [op, arg, ret]
  point,      \* the evaluation point: [type, g, gotN, gotdN]
  N,          \* the caller's NewArray<double>
  dN          \* the caller's NewArray<Vector3>

projVars == <<to, from, to0, pc, error, projector, meshElem, fromElem, data,
              mem, visited, node>>

shapeVars == <<call, point, N, dN>>

vars == <<to, from, to0, pc, error, projector, meshElem, fromElem, data,
          mem, visited, node, call, point, N, dN>>

NoCall == [op |-> "none", arg |-> 0, ret |-> NULL]

NoPoint == [type |-> VERTEX, g |-> <<>>, gotN |-> FALSE, gotdN |-> FALSE]

NoMem == [live |-> {}, created |-> 0, released |-> 0, badFree |-> 0]

ShapeIdle == call = NoCall /\ point = NoPoint /\ N = <<>> /\ dN = <<>>

\* the fields projectHierarchicField may be called with: a hierarchic
\* destination, stale (every node MaxVal) or holding the source's values, and
\* a source of either family
InitFields ==
  \E tt \in ValueTypes, ft \in ValueTypes, fam \in {q, "Linear"} :
    /\ from \in FieldsOf(fam, ft)
    /\ to \in {UniformField(q, tt, MaxVal)} \cup
              (IF fam = q /\ tt = ft THEN {from} ELSE {})

Init ==
  /\ InitFields
  /\ to0 = to
  /\ pc = "call"
  /\ error = "none"
  /\ projector = "none"
  /\ meshElem = 0
  /\ fromElem = 0
  /\ data = <<>>
  /\ mem = NoMem
  /\ visited = {}
  /\ node = 0
  /\ ShapeIdle

Zeros(n) == [i \in 1..n |-> R(0)]

\* Projector<T>::Projector
Construct(T) ==
  /\ projector' = T
  /\ meshElem' = 0
  /\ fromElem' = 0
  /\ data' = Zeros(countComponents(to))
  /\ pc' = "apply"
  /\ error' = error

Abort(how) ==
  /\ pc' = "aborted"
  /\ error' = how
  /\ UNCHANGED <<projector, meshElem, fromElem, data>>

\* mutant: the assertion on the value types is missing
projectHierarchicField_NoAssert ==
  /\ pc = "call"
  /\ LET ttype == to.type
     IN  IF ttype = "SCALAR" THEN Construct("double")
         ELSE IF ttype = "VECTOR" THEN Construct("Vector3")
         ELSE IF ttype = "MATRIX" THEN Construct("Matrix3x3")
         ELSE Abort("fail")
  /\ UNCHANGED <<to, from, to0, mem, visited, node, shapeVars>>

\* mutant: the MATRIX branch is missing
projectHierarchicField_NoMatrix ==
  /\ pc = "call"
  /\ LET ttype == to.type
         ftype == from.type
     IN  IF ttype # ftype THEN Abort("assert")
         ELSE IF ttype = "SCALAR" THEN Construct("double")
         ELSE IF ttype = "VECTOR" THEN Construct("Vector3")
         ELSE Abort("fail")
  /\ UNCHANGED <<to, from, to0, mem, visited, node, shapeVars>>

\* projectHierarchicField up to projector.run()
projectHierarchicField ==
  /\ pc = "call"
  /\ LET ttype == to.type
         ftype == from.type
     IN  IF ttype # ftype THEN Abort("assert")
         ELSE IF ttype = "SCALAR" THEN Construct("double")
         ELSE IF ttype = "VECTOR" THEN Construct("Vector3")
         ELSE IF ttype = "MATRIX" THEN Construct("Matrix3x3")
         ELSE Abort("fail")
  /\ UNCHANGED <<to, from, to0, mem, visited, node, shapeVars>>

\* FieldOp::apply enters an entity that carries nodes of the destination
ApplyInEntity ==
  /\ pc = "apply"
  /\ \E e \in Entities \ visited :
       /\ FieldCountNodesOn(to, e) > 0
       /\ LET r == inEntity(mem, e)
          IN  /\ mem' = r.mem
              /\ meshElem' = r.meshElem
              /\ fromElem' = r.fromElem
  /\ node' = 0
  /\ pc' = "atNode"
  /\ UNCHANGED <<to, from, to0, error, projector, data, visited, shapeVars>>

\* FieldOp::apply calls atNode for the next node of the entity
ApplyAtNode ==
  /\ pc = "atNode"
  /\ node < FieldCountNodesOn(to, getEntity(mem, meshElem))
  /\ to' = atNode(to, from, getEntity(mem, meshElem), getEntity(mem, fromElem),
                  data, node)
  /\ node' = node + 1
  /\ UNCHANGED <<from, to0, pc, error, projector, meshElem, fromElem, data,
                 mem, visited, shapeVars>>

\* FieldOp::apply leaves the entity after its last node
ApplyOutEntity ==
  /\ pc = "atNode"
  /\ node = FieldCountNodesOn(to, getEntity(mem, meshElem))
  /\ mem' = outEntity(mem, meshElem, fromElem)
  /\ visited' = visited \cup {getEntity(mem, meshElem)}
  /\ pc' = "apply"
  /\ UNCHANGED <<to, from, to0, error, projector, meshElem, fromElem, data,
                 node, shapeVars>>

\* every entity is done: run() and projectHierarchicField return
Return ==
  /\ pc = "apply"
  /\ \A e \in Entities \ visited : FieldCountNodesOn(to, e) = 0
  /\ pc' = "returned"
  /\ UNCHANGED <<to, from, to0, error, projector, meshElem, fromElem, data,
                 mem, visited, node, shapeVars>>

Next ==
  \/ projectHierarchicField
  \/ ApplyInEntity
  \/ ApplyAtNode
  \/ ApplyOutEntity
  \/ Return

Spec == Init /\ [][Next]_vars

\* ------------------------------------------------- the shape interface
\* A caller of the shape interface: it evaluates the bases of an entity type
\* at a point into its own arrays, looks entity shapes up and asks for shape
\* families.
ProjectionIdle ==
  /\ to = UniformField(q, "SCALAR", 0)
  /\ from = UniformField(q, "SCALAR", 0)
  /\ to0 = to
  /\ pc = "idle"
  /\ error = "none"
  /\ projector = "none"
  /\ meshElem = 0
  /\ fromElem = 0
  /\ data = <<>>
  /\ mem = NoMem
  /\ visited = {}
  /\ node = 0

ShapeInit == ProjectionIdle /\ ShapeIdle

\* the caller picks an entity type and a point of its reference domain and
\* declares fresh arrays for the bases there
ChoosePoint ==
  /\ \E t \in SupportedTypes : \E g \in RefGrid(t) :
       point' = [type |-> t, g |-> g, gotN |-> FALSE, gotdN |-> FALSE]
  /\ N' = <<>>
  /\ dN' = <<>>
  /\ UNCHANGED <<call, projVars>>

GetValuesCall ==
  /\ point # NoPoint
  /\ N' = getValues(getEntityShape(point.type), XiOf(point.g))
  /\ point' = [point EXCEPT !.gotN = TRUE]
  /\ call' = [op |-> "getValues", arg |-> point.type, ret |-> NULL]
  /\ UNCHANGED <<dN, projVars>>

GetLocalGradientsCall ==
  /\ point # NoPoint
  /\ dN' = getLocalGradients(getEntityShape(point.type), XiOf(point.g), dN)
  /\ point' = [point EXCEPT !.gotdN = TRUE]
  /\ call' = [op |-> "getLocalGradients", arg |-> point.type, ret |-> NULL]
  /\ UNCHANGED <<N, projVars>>

GetEntityShapeCall ==
  /\ \E t \in 0..(TYPES - 1) :
       call' = [op |-> "getEntityShape", arg |-> t, ret |-> getEntityShape(t)]
  /\ UNCHANGED <<point, N, dN, projVars>>

GetHierarchicCall ==
  /\ \E o \in Orders :
       call' = [op |-> "getHierarchic", arg |-> o, ret |-> getHierarchic(o)]
  /\ UNCHANGED <<point, N, dN, projVars>>

ShapeNext ==
  \/ ChoosePoint
  \/ GetValuesCall
  \/ GetLocalGradientsCall
  \/ GetEntityShapeCall
  \/ GetHierarchicCall

ShapeSpec == ShapeInit /\ [][ShapeNext]_vars

\* ======================================================= shape claims
\* (checked under ShapeSpec)

CurShape == getEntityShape(point.type)

CurN == getValues(CurShape, XiOf(point.g))

\* C5: after getLocalGradients the gradient array is parallel to the value
\* basis: it has countNodes entries (1, 3, 6, 10), as many as getValues
\* yields, and for the vertex it is the single entry (0,0,0).
C5_GradientParallel ==
  point.gotdN =>
    /\ Len(dN) = countNodes(CurShape)
    /\ Len(dN) = Len(CurN)
    /\ point.type = VERTEX => dN = <<Vector3(R(0), R(0), R(0))>>

\* the unit step of the grid in reference coordinate k
Step(g, k, d) == [g EXCEPT ![k] = @ + d]

\* the topological dimension of the supported types
Dim(type) ==
  CASE type = VERTEX -> 0 [] type = EDGE -> 1 [] type = TRIANGLE -> 2 [] type = TET -> 3

\* C6: for edge, triangle and tetrahedron every gradient entry is the exact
\* derivative of the value-basis entry in each reference coordinate.  The
\* entries are polynomials of degree at most 2, whose derivative at x is the
\* central difference (N(x+h) - N(x-h)) / 2h for h = 1/GridRes; with both
\* sides in units of 1/Den this is GridRes * (N(X+1) - N(X-1)) = 2 * dN.
\* Components for coordinates the topology does not have are 0.
C6_GradientIsDerivative ==
  (point.gotdN /\ point.type \in {EDGE, TRIANGLE, TET}) =>
    /\ Len(dN) = countNodes(CurShape)
    /\ \A i \in 1..Len(dN) : \A k \in 1..3 :
         LET hi == getValues(CurShape, XiOf(Step(point.g, k, 1)))[i]
             lo == getValues(CurShape, XiOf(Step(point.g, k, -1)))[i]
         IN  /\ GridRes * (hi.p - lo.p) = 2 * dN[i][k].p
             /\ GridRes * (hi.q - lo.q) = 2 * dN[i][k].q
             /\ k > Dim(point.type) => dN[i][k] = R(0)

\* C6 witness: the gradients of the tetrahedron were evaluated at a point
\* with three nonzero coordinates, where every bubble gradient is nonzero
C6_Witness ==
  /\ point.gotdN
  /\ point.type = TET
  /\ point.g = <<1, 1, 1>>
  /\ \A i \in 5..10 : dN[i] # Vector3(R(0), R(0), R(0))

\* the number of entities of type sub in the closure of an entity of a type
ClosureCount(type, sub) ==
  CASE sub = VERTEX ->
         (CASE type = VERTEX -> 1 [] type = EDGE -> 2
            [] type = TRIANGLE -> 3 [] type = TET -> 4)
    [] sub = EDGE ->
         (CASE type = VERTEX -> 0 [] type = EDGE -> 1
            [] type = TRIANGLE -> 3 [] type = TET -> 6)
    [] sub = TRIANGLE ->
         (CASE type = TRIANGLE -> 1 [] type = TET -> 4 [] OTHER -> 0)
    [] sub = TET -> IF type = TET THEN 1 ELSE 0

\* C7: getEntityShape yields a shape of 1, 3, 6, 10 nodes for vertex, edge,
\* triangle, tetrahedron and the absent value for quadrilateral, hexahedron,
\* prism and pyramid; each node count is the sum over the closure of the
\* entity of the family's countNodesOn.
C7_EntityShapeLookup ==
  call.op = "getEntityShape" =>
    /\ call.arg \in {QUAD, HEX, PRISM, PYRAMID} <=> call.ret = NULL
    /\ call.arg = VERTEX => countNodes(call.ret) = 1
    /\ call.arg = EDGE => countNodes(call.ret) = 3
    /\ call.arg = TRIANGLE => countNodes(call.ret) = 6
    /\ call.arg = TET => countNodes(call.ret) = 10
    /\ call.ret # NULL =>
         countNodes(call.ret) =
             ClosureCount(call.arg, VERTEX) * countNodesOn(VERTEX)
           + ClosureCount(call.arg, EDGE) * countNodesOn(EDGE)
           + ClosureCount(call.arg, TRIANGLE) * countNodesOn(TRIANGLE)
           + ClosureCount(call.arg, TET) * countNodesOn(TET)

\* C7 witness: the tetrahedron's shape was looked up
C7_Witness ==
  call.op = "getEntityShape" /\ call.arg = TET /\ call.ret = "tet"

\* C8: getHierarchic returns the linear family for order 1, the one static
\* Hierarchic object, of order 2, for order 2, and the absent value for
\* every other order.
C8_ShapeFamily ==
  call.op = "getHierarchic" =>
    /\ call.arg = 1 => call.ret = "Linear"
    /\ call.arg = 2 => call.ret = q /\ FieldShapeGetOrder(call.ret) = 2
    /\ call.arg \notin {1, 2} => call.ret = NULL

\* C8 witness: order 2 was asked for and the singleton returned
C8_Witness ==
  call.op = "getHierarchic" /\ call.arg = 2 /\ call.ret = q

\* ================================================== projection claims
\* (checked under Spec)

Supported == {"SCALAR", "VECTOR", "MATRIX"}

\* the entity being processed
CurEntity == getEntity(mem, meshElem)

\* C1: with a destination value type different from the source's, the call
\* aborts on the assertion: no Projector is constructed and every nodal value
\* of the destination is as it was before the call.
C1_MismatchAborts ==
  (to.type # from.type /\ pc # "call") =>
    /\ pc = "aborted"
    /\ error = "assert"
    /\ projector = "none"
    /\ to = to0

\* C1 witness: a scalar destination with nonzero values and a vector source
C1_Witness ==
  /\ pc = "aborted"
  /\ to.type = "SCALAR"
  /\ from.type = "VECTOR"
  /\ \A e \in Entities : to.data[e] = <<NodalValue(MaxVal, 1)>>
  /\ \E e \in Entities : from.data[e] = <<NodalValue(MaxVal, 3)>>

\* C2: identity projection: a source of the hierarchic shape that holds the
\* destination's nodal values leaves, once projected, every vertex and edge
\* value of the destination equal to the source's.
C2_IdentityProjection ==
  (pc = "returned" /\ from.shape = q /\ to0.data = from.data) =>
    \A e \in Entities : to.data[e] = from.data[e]

\* the source field at the midpoint of an edge / at a vertex, written out:
\* component i of the value v satisfies v = (a + b)/2 + (c/4) * bubble on an
\* edge with end values a, b of a hierarchic source
IsSourceAt(v, e) ==
  IF getType(e) = VERTEX THEN v = from.data[e][1]
  ELSE LET a == from.data[getDownward(e)[1]][1]
           b == from.data[getDownward(e)[2]][1]
           bubble == from.data[e][1]
       IN  /\ Len(v) = Len(bubble)
           /\ \A i \in 1..Len(v) :
                /\ 2 * v[i].p = a[i].p + b[i].p
                /\ 4 * v[i].q = bubble[i].p

\* C3: after the projection the value at node n of entity e is the zero of
\* the destination's value type when nf = 0 or nf < nt, and otherwise the
\* source field evaluated on e at the node's reference coordinate (the
\* origin).  A source without edge nodes leaves every edge value zero and
\* every vertex value sampled from the source.
C3_ZeroFillOrSample ==
  pc = "returned" =>
    /\ \A e \in Entities :
         LET nt == FieldCountNodesOn(to, e)
             nf == FieldCountNodesOn(from, e)
         IN  \A n \in 0..(nt - 1) :
               IF nf = 0 \/ nf < nt
               THEN to.data[e][n + 1] = Zeros(countComponents(to))
               ELSE IsSourceAt(to.data[e][n + 1], e)
    /\ from.shape = "Linear" =>
         /\ \A e \in MeshEdges : to.data[e] = <<Zeros(countComponents(to))>>
         /\ \A e \in MeshVertices : to.data[e] = from.data[e]

\* C3 witness: a linear source with a nonzero vertex value was projected
\* onto a destination whose edge values were nonzero; and the same for a
\* hierarchic source with a nonzero bubble (see C3_WitnessSample)
C3_Witness ==
  /\ pc = "returned"
  /\ from.shape = "Linear"
  /\ from.data["v1"] # <<Zeros(countComponents(from))>>
  /\ to0.data["e01"] # <<Zeros(countComponents(to))>>
  /\ to.data["e01"] = <<Zeros(countComponents(to))>>

C3_WitnessSample ==
  /\ pc = "returned"
  /\ from.shape = q
  /\ from.data["e01"] # <<Zeros(countComponents(from))>>
  /\ to.data["e01"][1][1].q # 0

\* C4: with equal value types the Projector runs exactly for SCALAR, VECTOR
\* and MATRIX; any other type fails with the unsupported-type error, no
\* Projector is constructed and the destination is not written.  There is an
\* error only on a type mismatch or an unsupported type.
C4_SupportedKinds ==
  pc # "call" =>
    /\ to.type = from.type =>
         /\ projector # "none" <=> to.type \in Supported
         /\ to.type \in Supported =>
              pc \in {"apply", "atNode", "returned"} /\ error = "none"
         /\ to.type \notin Supported =>
              pc = "aborted" /\ error = "fail" /\ to = to0
    /\ to.type = "SCALAR" /\ projector # "none" => projector = "double"
    /\ to.type = "VECTOR" /\ projector # "none" => projector = "Vector3"
    /\ to.type = "MATRIX" /\ projector # "none" => projector = "Matrix3x3"
    /\ error # "none" <=> (to.type # from.type \/ to.type \notin Supported)

\* C4 witness: source and destination of the same unsupported type
C4_Witness ==
  /\ pc = "aborted"
  /\ error = "fail"
  /\ to.type = from.type

C4_WitnessRun ==
  /\ pc = "returned"
  /\ projector = "Matrix3x3"

Live(class) == {r \in mem.live : r.class = class}

\* C9: the mapping element and the source element created on entering an
\* entity are each released exactly once on leaving it: inside an entity one
\* of each is live, both for that entity; between entities and after the
\* return none is live, every element created was released, and no pointer
\* was released twice.
C9_ElementsReleased ==
  /\ mem.badFree = 0
  /\ Cardinality(Live("VectorElement")) <= 1
  /\ Cardinality(Live("ElementOf")) <= 1
  /\ pc = "atNode" =>
       /\ Live("VectorElement") =
            {[id |-> meshElem, class |-> "VectorElement", entity |-> CurEntity]}
       /\ Live("ElementOf") =
            {[id |-> fromElem, class |-> "ElementOf", entity |-> CurEntity]}
       /\ mem.created = mem.released + 2
       /\ mem.released = 2 * Cardinality(visited)
  /\ pc # "atNode" =>
       /\ mem.live = {}
       /\ mem.released = mem.created
       /\ mem.created = 2 * Cardinality(visited)
  /\ pc = "returned" => visited = Entities

\* C9 witness: the projection returned after entities of both branches
\* (sampled vertices, zero-filled edges) were entered and left
C9_Witness ==
  /\ pc = "returned"
  /\ from.shape = "Linear"
  /\ mem.released = 2 * Cardinality(Entities)

RECURSIVE NodesFrom(_, _, _)
\* atNode for the nodes n, n+1, ... of entity e
NodesFrom(toF, e, n) ==
  IF n >= FieldCountNodesOn(toF, e) THEN toF
  ELSE NodesFrom(atNode(toF, from, e, e, Zeros(countComponents(toF)), n), e, n + 1)

RECURSIVE EntitiesFrom(_, _)
\* the projection run over the entities order[k], order[k+1], ...
EntitiesFrom(toF, k) ==
  IF k > Len(IterationOrder) THEN toF
  ELSE EntitiesFrom(NodesFrom(toF, IterationOrder[k], 0), k + 1)

\* a step changes at most the destination value at the node being processed
FrameStep ==
  /\ from' = from
  /\ to'.shape = to.shape
  /\ to'.type = to.type
  /\ \A e \in Entities :
       /\ Len(to'.data[e]) = Len(to.data[e])
       /\ \A i \in 1..Len(to.data[e]) :
            to'.data[e][i] # to.data[e][i] =>
              pc = "atNode" /\ e = CurEntity /\ i = node + 1

\* C10: processing node n of entity e changes only the destination value at
\* (e, n) and leaves the source and every other destination value as they
\* were; whatever the order in which the entities are visited, the final
\* destination is the one of the mesh iterator's order.
C10_FrameAndOrder ==
  /\ [][FrameStep]_vars
  /\ [](pc = "returned" => to = EntitiesFrom(to0, 1))

\* C10 witness: out of the mesh iterator's order, the edge e12 was processed
\* (its value sampled and changed) before either of its vertices
C10_Witness ==
  /\ pc = "apply"
  /\ from.shape = q
  /\ "e12" \in visited
  /\ "v1" \notin visited
  /\ "v2" \notin visited
  /\ to.data["e12"] # to0.data["e12"]
  /\ to.data["e12"][1][1].q # 0

====
